---- MODULE Spec2Model ----
(***************************************************************************)
(* Model of TextractTool (tools/textract_tool.py): the block-graph reducer *)
(* (_process_textract_response and its helpers) and the S3/Textract        *)
(* control flow of _run.                                                   *)
(*                                                                         *)
(* Strings are sequences of chunks.  A chunk is a TLA+ string standing for *)
(* a piece of text without leading or trailing whitespace, or one of the   *)
(* whitespace chunks " " and "\n".  Python dicts are records whose DOMAIN  *)
(* is the set of keys present, so 'k in d' is k \in DOMAIN d.              *)
(***************************************************************************)
EXTENDS Integers, Sequences, FiniteSets, TLC

VARIABLES
    corpus,        \* which family of documents the response is drawn from
    blocks,        \* response['Blocks'] of the response being reduced
    pc,            \* position of the reducer: "receive" or the function applied
    key_value_pairs, \* result of _extract_key_value_pairs (ordered dict)
    table_content,   \* result of _extract_table_content for the chosen TABLE
    table_block,     \* the TABLE block _extract_table_content was applied to
    text_content,    \* result of _extract_text_content
    report,          \* result of _process_textract_response
    rpc,           \* position of _run
    s3_bucket,     \* _run's s3_bucket argument / local
    bucket_made,   \* the temporary bucket exists in S3 (created by this run)
    objects,       \* keys of the objects this run has put in the bucket
    deleted,       \* what a delete call has been issued for (keys, "bucket")
    failed,        \* steps of this run that failed (history)
    invoice_response, po_response,   \* analyze_document results
    invoice_analysis, po_analysis,   \* reduced reports
    result         \* what _run returned

reducer_vars == <<corpus, blocks, pc, key_value_pairs, table_content,
                  table_block, text_content, report>>
run_vars == <<rpc, s3_bucket, bucket_made, objects, deleted, failed,
              invoice_response, po_response, invoice_analysis, po_analysis,
              result>>
vars == <<reducer_vars, run_vars>>

-----------------------------------------------------------------------------
(* Python values and string primitives *)

\* None where a string or list is expected (b.get('EntityTypes'), grid cells)
None == <<"<None>">>
\* None where a block (dict) is expected: block_map.get(id) on a miss
NoBlock == [NoneType |-> TRUE]

Whitespace == {" ", "\n"}

RECURSIVE LStrip(_)
LStrip(s) ==
    IF s # <<>> /\ Head(s) \in Whitespace THEN LStrip(Tail(s)) ELSE s

RECURSIVE RStrip(_)
RStrip(s) ==
    IF s # <<>> /\ s[Len(s)] \in Whitespace
    THEN RStrip(SubSeq(s, 1, Len(s) - 1)) ELSE s

\* str.strip()
Strip(s) == RStrip(LStrip(s))

\* sep.join(parts)
RECURSIVE Join(_, _)
Join(sep, parts) ==
    IF parts = <<>> THEN <<>>
    ELSE IF Len(parts) = 1 THEN parts[1]
    ELSE parts[1] \o sep \o Join(sep, Tail(parts))

\* d.get(k, default)
DictGet(d, k, default) == IF k \in DOMAIN d THEN d[k] ELSE default

\* [x for x in s if x['BlockType'] == t]
BlocksOfType(s, t) == SelectSeq(s, LAMBDA b : b.BlockType = t)

\* {block['Id']: block for block in blocks}: a later block with the same Id wins
BlockMap(bs) ==
    [i \in {bs[k].Id : k \in DOMAIN bs} |->
        bs[CHOOSE k \in DOMAIN bs :
              /\ bs[k].Id = i
              /\ \A j \in DOMAIN bs : j > k => bs[j].Id # i]]

\* block_map.get(id)
MapGet(block_map, id) ==
    IF id \in DOMAIN block_map THEN block_map[id] ELSE NoBlock

\* the Ids of the relationships of the given Type, in relationship order
RECURSIVE IdsOfType(_, _)
IdsOfType(rels, type) ==
    IF rels = <<>> THEN <<>>
    ELSE (IF Head(rels).Type = type THEN Head(rels).Ids ELSE <<>>)
         \o IdsOfType(Tail(rels), type)

Relationships(block) == DictGet(block, "Relationships", <<>>)

-----------------------------------------------------------------------------
(* _get_text_from_block *)

\* an id that is not in block_map contributing an empty part
RECURSIVE ChildTextParts_EmptyOnMiss(_, _)
ChildTextParts_EmptyOnMiss(ids, block_map) ==
    IF ids = <<>> THEN <<>>
    ELSE LET child_block == MapGet(block_map, Head(ids))
         IN  (IF child_block = NoBlock THEN << <<>> >>
              ELSE IF child_block.BlockType = "WORD"
              THEN <<DictGet(child_block, "Text", <<>>)>>
              ELSE <<>>)
             \o ChildTextParts_EmptyOnMiss(Tail(ids), block_map)

\* the text_parts contributed by the CHILD ids: child_block.get('Text', '')
\* of every id that resolves to a WORD block
RECURSIVE ChildTextParts(_, _)
ChildTextParts(ids, block_map) ==
    IF ids = <<>> THEN <<>>
    ELSE LET child_block == MapGet(block_map, Head(ids))
         IN  (IF child_block # NoBlock /\ child_block.BlockType = "WORD"
              THEN <<DictGet(child_block, "Text", <<>>)>>
              ELSE <<>>)
             \o ChildTextParts(Tail(ids), block_map)

get_text_from_block(block, block_map) ==
    LET own == IF "Text" \in DOMAIN block THEN <<block.Text>> ELSE <<>>
        text_parts ==
            own \o ChildTextParts(IdsOfType(Relationships(block), "CHILD"),
                                  block_map)
    IN  Strip(Join(<<" ">>, text_parts))

-----------------------------------------------------------------------------
(* _extract_key_value_pairs *)

EntityTypes(block) == DictGet(block, "EntityTypes", None)

\* lines 194-198: the first id of relationship['Ids'] that resolves to a block
\* with EntityTypes == ['VALUE'] (the inner loop stops there), else NoBlock
RECURSIVE FirstValueBlock(_, _)
FirstValueBlock(ids, block_map) ==
    IF ids = <<>> THEN NoBlock
    ELSE LET value_block == MapGet(block_map, Head(ids))
         IN  IF value_block # NoBlock /\ EntityTypes(value_block) = <<"VALUE">>
             THEN value_block
             ELSE FirstValueBlock(Tail(ids), block_map)

\* lines 192-198: the loop over kv_block['Relationships'].  The break at line
\* 198 leaves only the loop over Ids: every VALUE relationship that finds a
\* block assigns value_text again.
RECURSIVE ValueText(_, _, _)
ValueText(rels, block_map, value_text) ==
    IF rels = <<>> THEN value_text
    ELSE LET value_block ==
                 IF Head(rels).Type = "VALUE"
                 THEN FirstValueBlock(Head(rels).Ids, block_map)
                 ELSE NoBlock
         IN  ValueText(Tail(rels), block_map,
                       IF value_block # NoBlock
                       THEN get_text_from_block(value_block, block_map)
                       ELSE value_text)

\* an insertion-ordered dict is a sequence of <<key, value>>
DictKeys(d) == {d[i][1] : i \in DOMAIN d}

\* d.setdefault(k, v): an existing key keeps its value
DictSet_KeepFirst(d, k, v) ==
    IF k \in DictKeys(d) THEN d ELSE Append(d, <<k, v>>)

\* d[k] = v: a new key is appended, an existing key keeps its place
DictSet(d, k, v) ==
    IF k \in DictKeys(d)
    THEN [i \in DOMAIN d |-> IF d[i][1] = k THEN <<k, v>> ELSE d[i]]
    ELSE Append(d, <<k, v>>)

\* lines 185-201: the loop over key_value_blocks
RECURSIVE KeyValueLoop(_, _, _)
KeyValueLoop(kvs, block_map, d) ==
    IF kvs = <<>> THEN d
    ELSE LET kv_block == Head(kvs)
             key_text == get_text_from_block(kv_block, block_map)
             value_text ==
                 ValueText(Relationships(kv_block), block_map, <<>>)
         IN  KeyValueLoop(Tail(kvs), block_map,
                 IF /\ EntityTypes(kv_block) = <<"KEY">>
                    /\ key_text # <<>>
                    /\ value_text # <<>>
                 THEN DictSet(d, key_text, value_text)
                 ELSE d)

extract_key_value_pairs(bs, key_value_blocks) ==
    KeyValueLoop(key_value_blocks, BlockMap(bs), <<>>)

-----------------------------------------------------------------------------
(* list.sort(key=...) with a key that is a pair of numbers: stable *)

LexLess(a, b) == a[1] < b[1] \/ (a[1] = b[1] /\ a[2] < b[2])

\* e goes before the first element whose key is strictly greater
RECURSIVE InsertSorted(_, _)
InsertSorted(sorted, e) ==
    IF sorted = <<>> THEN <<e>>
    ELSE IF LexLess(e[1], Head(sorted)[1]) THEN <<e>> \o sorted
    ELSE <<Head(sorted)>> \o InsertSorted(Tail(sorted), e)

\* pairs is a sequence of <<key, item>>
RECURSIVE StableSort(_)
StableSort(pairs) ==
    IF pairs = <<>> THEN <<>>
    ELSE InsertSorted(StableSort(SubSeq(pairs, 1, Len(pairs) - 1)),
                      pairs[Len(pairs)])

-----------------------------------------------------------------------------
(* _extract_table_content *)

\* lines 213-218: the CHILD ids that resolve to a CELL block, in order
RECURSIVE TableCells(_, _)
TableCells(ids, block_map) ==
    IF ids = <<>> THEN <<>>
    ELSE LET cell_block == MapGet(block_map, Head(ids))
         IN  (IF cell_block # NoBlock /\ cell_block.BlockType = "CELL"
              THEN <<cell_block>> ELSE <<>>)
             \o TableCells(Tail(ids), block_map)

RowIndex(cell) == DictGet(cell, "RowIndex", 0)
ColumnIndex(cell) == DictGet(cell, "ColumnIndex", 0)

\* line 224
SortCells(table_cells) ==
    LET sorted == StableSort([i \in DOMAIN table_cells |->
                     <<<<RowIndex(table_cells[i]), ColumnIndex(table_cells[i])>>,
                       table_cells[i]>>])
    IN  [i \in DOMAIN sorted |-> sorted[i][2]]

MaxOf(S) == CHOOSE m \in S : \A x \in S : x <= m

\* line 231: max_row + 1 rows of max_col + 1 cells, all None.  Python index i
\* is index i + 1 here.
NewGrid(max_row, max_col) ==
    [r \in 1..(max_row + 1) |-> [c \in 1..(max_col + 1) |-> None]]

\* Python list index: a negative index counts from the end
PyIndex(i, n) == (IF i < 0 THEN i + n ELSE i) + 1

\* lines 233-237
RECURSIVE FillGrid(_, _, _)
FillGrid(cells, table_grid, block_map) ==
    IF cells = <<>> THEN table_grid
    ELSE LET cell == Head(cells)
             row == PyIndex(RowIndex(cell) - 1, Len(table_grid))
             col == PyIndex(ColumnIndex(cell) - 1, Len(table_grid[1]))
             cell_text == get_text_from_block(cell, block_map)
         IN  FillGrid(Tail(cells),
                      [table_grid EXCEPT ![row][col] = cell_text],
                      block_map)

\* str(cell) in place of cell or ""
CellOrEmpty_Str(cell) == IF cell = None THEN <<"None">> ELSE cell

\* line 246: cell or ""
CellOrEmpty(cell) == IF cell = None \/ cell = <<>> THEN <<>> ELSE cell

\* line 247
RowLine(row) ==
    <<"|", " ">>
    \o Join(<<" ", "|", " ">>, [i \in DOMAIN row |-> CellOrEmpty(row[i])])
    \o <<" ", "|">>

\* line 251
SeparatorLine(n) ==
    <<"|", " ">> \o Join(<<" ", "|", " ">>, [i \in 1..n |-> <<"---">>])
    \o <<" ", "|">>

\* lines 243-252
RECURSIVE MarkdownRows(_, _)
MarkdownRows(table_grid, i) ==
    IF i > Len(table_grid) THEN <<>>
    ELSE <<RowLine(table_grid[i])>>
         \o (IF i = 1 THEN <<SeparatorLine(Len(table_grid[i]))>> ELSE <<>>)
         \o MarkdownRows(table_grid, i + 1)

extract_table_content(bs, tbl, cell_blocks) ==
    LET block_map == BlockMap(bs)
        table_cells ==
            SortCells(TableCells(IdsOfType(Relationships(tbl), "CHILD"),
                                 block_map))
        max_row == MaxOf({RowIndex(table_cells[i]) : i \in DOMAIN table_cells})
        max_col == MaxOf({ColumnIndex(table_cells[i]) : i \in DOMAIN table_cells})
        table_grid == FillGrid(table_cells, NewGrid(max_row, max_col), block_map)
    IN  IF table_cells = <<>> THEN <<>>
        ELSE Join(<<"\n">>, MarkdownRows(table_grid, 1))

-----------------------------------------------------------------------------
(* _extract_text_content *)

EmptyDict == <<>>

\* the key with Left before Top
ReadingKey_LeftFirst(b) ==
    LET box == DictGet(DictGet(b, "Geometry", EmptyDict), "BoundingBox", EmptyDict)
    IN  <<DictGet(box, "Left", 0), DictGet(box, "Top", 0)>>

\* lines 259-260: the sort key of a LINE block
ReadingKey(b) ==
    LET box == DictGet(DictGet(b, "Geometry", EmptyDict), "BoundingBox", EmptyDict)
    IN  <<DictGet(box, "Top", 0), DictGet(box, "Left", 0)>>

SortTextBlocks(text_blocks) ==
    LET sorted == StableSort([i \in DOMAIN text_blocks |->
                     <<ReadingKey(text_blocks[i]), text_blocks[i]>>])
    IN  [i \in DOMAIN sorted |-> sorted[i][2]]

\* lines 262-266
RECURSIVE TextLines(_)
TextLines(text_blocks) ==
    IF text_blocks = <<>> THEN <<>>
    ELSE LET text == Strip(DictGet(Head(text_blocks), "Text", <<>>))
         IN  (IF text # <<>> THEN <<text>> ELSE <<>>)
             \o TextLines(Tail(text_blocks))

extract_text_content(bs, text_blocks) ==
    Join(<<"\n">>, TextLines(SortTextBlocks(text_blocks)))

-----------------------------------------------------------------------------
(* _process_textract_response *)

KVHeader == "### Key-Value Pairs (Forms)"
TablesHeader == "### Tables"
TextHeader == "### Text Content"

\* line 153, for every item of the dict
RECURSIVE PairLines(_)
PairLines(d) ==
    IF d = <<>> THEN <<>>
    ELSE <<(<<"**">> \o Head(d)[1] \o <<":**", " ">> \o Head(d)[2])>>
         \o PairLines(Tail(d))

\* lines 161-165
RECURSIVE TableEntries(_, _, _)
TableEntries(bs, table_blocks, cell_blocks) ==
    IF table_blocks = <<>> THEN <<>>
    ELSE LET content == extract_table_content(bs, Head(table_blocks), cell_blocks)
         IN  (IF content # <<>> THEN <<content, <<>> >> ELSE <<>>)
             \o TableEntries(bs, Tail(table_blocks), cell_blocks)

\* the section guarded by the pairs extracted instead of the blocks found
KeyValueSection_IfPairs(bs, key_value_blocks) ==
    IF extract_key_value_pairs(bs, key_value_blocks) # <<>>
    THEN <<<<KVHeader>>, <<>> >>
         \o PairLines(extract_key_value_pairs(bs, key_value_blocks))
         \o << <<>> >>
    ELSE <<>>

\* lines 146-154
KeyValueSection(bs, key_value_blocks) ==
    IF key_value_blocks # <<>>
    THEN <<<<KVHeader>>, <<>> >>
         \o PairLines(extract_key_value_pairs(bs, key_value_blocks))
         \o << <<>> >>
    ELSE <<>>

\* lines 157-165
TablesSection(bs, table_blocks, cell_blocks) ==
    IF table_blocks # <<>>
    THEN <<<<TablesHeader>>, <<>> >>
         \o TableEntries(bs, table_blocks, cell_blocks)
    ELSE <<>>

\* lines 168-174
TextSection(bs, text_blocks) ==
    IF text_blocks # <<>>
    THEN <<<<TextHeader>>, <<>>, extract_text_content(bs, text_blocks)>>
    ELSE <<>>

\* What an exception leaves in place of a function's result
Raised == <<"<raised>">>

\* The subscript reads of the reducer that raise KeyError on an absent key:
\* b['BlockType'] for every block (lines 135-138) and block['Id'] for every
\* block once a block_map is built (lines 183, 208), which is when there is a
\* KEY_VALUE_SET or a TABLE block.  (Every relationship of the responses
\* modelled carries 'Type' and 'Ids'.)
ReductionRaises(bs) ==
    \/ \E i \in DOMAIN bs : "BlockType" \notin DOMAIN bs[i]
    \/ /\ \E i \in DOMAIN bs : bs[i].BlockType \in {"KEY_VALUE_SET", "TABLE"}
       /\ \E i \in DOMAIN bs : "Id" \notin DOMAIN bs[i]

\* lines 132-176, for blocks that all carry 'BlockType' and 'Id'
process_textract_response(bs, doc_type) ==
    LET text_blocks == BlocksOfType(bs, "LINE")
        table_blocks == BlocksOfType(bs, "TABLE")
        cell_blocks == BlocksOfType(bs, "CELL")
        key_value_blocks == BlocksOfType(bs, "KEY_VALUE_SET")
        res == << <<"##", " ", doc_type, " ", "Document Analysis", "\n">> >>
               \o KeyValueSection(bs, key_value_blocks)
               \o TablesSection(bs, table_blocks, cell_blocks)
               \o TextSection(bs, text_blocks)
    IN  Join(<<"\n">>, res)

-----------------------------------------------------------------------------
(* The responses the reducer is run on.  A block's Id is its position in   *)
(* the collection; id 0 is never a block (a dangling reference).           *)

MaxTargets == 2     \* form documents: blocks that KEY blocks point to
MaxKeys == 2        \* form documents: KEY blocks
MaxRow == 2         \* table documents: largest RowIndex
MaxCol == 2         \* table documents: largest ColumnIndex
MaxCells == 4       \* table documents: CELL blocks
MaxLines == 3       \* text documents: LINE blocks
MaxMixed == 3       \* mixed documents: blocks of any type

Corpora == {"form", "table", "text", "mixed"}
DocTypes == {"INVOICE", "PURCHASE ORDER"}

Rel(type, ids) == [Type |-> type, Ids |-> ids]
Box(top, left) == [BoundingBox |-> [Top |-> top, Left |-> left]]

\* form documents: what sits at ids 1..MaxTargets
TargetPool ==
    { [BlockType |-> "KEY_VALUE_SET", EntityTypes |-> <<"VALUE">>,
       Text |-> <<"$500.00">>],
      [BlockType |-> "KEY_VALUE_SET", EntityTypes |-> <<"VALUE">>,
       Text |-> <<"$20.00">>],
      [BlockType |-> "KEY_VALUE_SET", EntityTypes |-> <<"VALUE">>,
       Relationships |-> <<Rel("CHILD", <<0, 2>>)>>],
      [BlockType |-> "KEY_VALUE_SET", EntityTypes |-> <<"VALUE">>,
       Text |-> <<" ">>],
      [BlockType |-> "WORD", Text |-> <<"paid">>] }

\* form documents: a WORD at id 2 that lists the block at id 1 as its CHILD
NestedWordPool ==
    { [BlockType |-> "WORD", Text |-> <<"full">>,
       Relationships |-> <<Rel("CHILD", <<1>>)>>] }

KeyBlock(text, rels) ==
    [BlockType |-> "KEY_VALUE_SET", EntityTypes |-> <<"KEY">>,
     Text |-> text, Relationships |-> rels]

KeyPool ==
    { KeyBlock(<<"Total">>, <<Rel("VALUE", <<1>>)>>),
      KeyBlock(<<"Total">>, <<Rel("VALUE", <<2>>)>>),
      KeyBlock(<<"Total">>, <<Rel("VALUE", <<0>>)>>),
      KeyBlock(<<"Total">>, <<Rel("VALUE", <<0, 2, 1>>)>>),
      KeyBlock(<<"Total">>, <<Rel("VALUE", <<1>>), Rel("VALUE", <<2>>)>>),
      KeyBlock(<<"Date">>, <<Rel("CHILD", <<0, 2>>), Rel("VALUE", <<1>>)>>),
      [BlockType |-> "KEY_VALUE_SET", EntityTypes |-> <<"KEY">>,
       Text |-> <<"Date">>],
      [BlockType |-> "KEY_VALUE_SET", EntityTypes |-> <<"KEY">>,
       Relationships |-> <<Rel("VALUE", <<1>>)>>] }

\* table documents: id 1 is a WORD, then the CELL blocks, then the TABLE
WordPool == { [BlockType |-> "WORD", Text |-> <<"3">>] }

CellText(r, c) ==
    CASE <<r, c>> = <<1, 1>> -> <<"Item">>
      [] <<r, c>> = <<1, 2>> -> <<"Qty">>
      [] <<r, c>> = <<2, 1>> -> <<"Widget">>
      [] <<r, c>> = <<2, 2>> -> <<"3">>
      [] OTHER -> <<"x">>

\* one CELL with literal text per coordinate, then a CELL whose text is its
\* WORD child's and a CELL whose text is blank
CellPool ==
    [k \in 1..(MaxRow * MaxCol) |->
        LET r == ((k - 1) \div MaxCol) + 1
            c == ((k - 1) % MaxCol) + 1
        IN  [BlockType |-> "CELL", RowIndex |-> r, ColumnIndex |-> c,
             Text |-> CellText(r, c)]]
    \o << [BlockType |-> "CELL", RowIndex |-> 2, ColumnIndex |-> 2,
           Relationships |-> <<Rel("CHILD", <<0, 1>>)>>],
          [BlockType |-> "CELL", RowIndex |-> 1, ColumnIndex |-> 1,
           Text |-> <<" ">>] >>

Template(b) == [k \in DOMAIN b \ {"Id"} |-> b[k]]

\* CELL blocks arrive in the order of CellPool (their order in the collection
\* is read by nothing: the TABLE's Ids order them)
CellsFrom(bs) ==
    LET last == Template(bs[Len(bs)])
        from == IF last.BlockType = "CELL"
                THEN CHOOSE k \in DOMAIN CellPool : CellPool[k] = last
                ELSE 1
    IN  {CellPool[k] : k \in from..Len(CellPool)}

Reverse(s) == [i \in DOMAIN s |-> s[Len(s) + 1 - i]]

\* the elements of s at positions m..n that exist
Slice(s, m, n) ==
    LET hi == IF n < Len(s) THEN n ELSE Len(s)
    IN  IF m > hi THEN <<>> ELSE [i \in 1..(hi - m + 1) |-> s[i + m - 1]]

\* the TABLE blocks over the cells at ids 2..n
TablePool(n) ==
    LET ids == [i \in 1..(n - 1) |-> i + 1]
    IN  { [BlockType |-> "TABLE"],
          [BlockType |-> "TABLE", Relationships |-> <<Rel("CHILD", ids)>>],
          [BlockType |-> "TABLE",
           Relationships |-> <<Rel("CHILD", Reverse(ids))>>],
          [BlockType |-> "TABLE",
           Relationships |-> <<Rel("CHILD", <<0>> \o ids \o <<1>>)>>],
          [BlockType |-> "TABLE",
           Relationships |-> <<Rel("CHILD", Slice(ids, 1, 1)),
                               Rel("VALUE", ids),
                               Rel("CHILD", Slice(ids, 2, Len(ids)))>>],
          [BlockType |-> "TABLE",
           Relationships |-> <<Rel("CHILD", Slice(ids, 1, Len(ids) - 1))>>] }

\* text documents; Top and Left are in hundredths of the page (0.05 is 5)
LinePool ==
    { [BlockType |-> "LINE", Text |-> t, Geometry |-> Box(top, left)] :
        t \in {<<"a">>, <<" ", "b", " ">>, <<" ">>},
        top \in {5, 10}, left \in {0, 5} }
    \cup { [BlockType |-> "LINE", Text |-> <<"c">>], [BlockType |-> "LINE"] }

\* mixed documents
MixedPool ==
    { [BlockType |-> "KEY_VALUE_SET", EntityTypes |-> <<"VALUE">>,
       Text |-> <<"$500.00">>],
      KeyBlock(<<"Total">>, <<Rel("VALUE", <<1>>)>>),
      KeyBlock(<<"Total">>, <<Rel("VALUE", <<0>>)>>),
      [BlockType |-> "KEY_VALUE_SET", Text |-> <<"Total">>,
       Relationships |-> <<Rel("VALUE", <<1>>)>>],
      [BlockType |-> "TABLE", Relationships |-> <<Rel("CHILD", <<0, 1, 2>>)>>],
      [BlockType |-> "TABLE"],
      [BlockType |-> "CELL", RowIndex |-> 1, ColumnIndex |-> 1,
       Text |-> <<"Item">>],
      [BlockType |-> "CELL", RowIndex |-> 1, ColumnIndex |-> 2,
       Relationships |-> <<Rel("CHILD", <<0, 2>>)>>],
      [BlockType |-> "WORD", Text |-> <<"Qty">>],
      [BlockType |-> "WORD"],
      [BlockType |-> "LINE", Text |-> <<"Thank you">>,
       Geometry |-> Box(5, 0)],
      [BlockType |-> "LINE", Text |-> <<" ">>, Geometry |-> Box(10, 0)] }

CountOfType(bs, t) == Len(BlocksOfType(bs, t))

\* the blocks that may come next in a document of corpus c holding bs
NextBlocks(c, bs) ==
    CASE c = "form" ->
           (IF CountOfType(bs, "KEY_VALUE_SET") + CountOfType(bs, "WORD") = Len(bs)
               /\ \A i \in DOMAIN bs : EntityTypes(bs[i]) # <<"KEY">>
               /\ Len(bs) < MaxTargets
            THEN TargetPool \cup (IF Len(bs) = 1 THEN NestedWordPool ELSE {})
            ELSE {})
           \cup (IF Cardinality({i \in DOMAIN bs :
                                   EntityTypes(bs[i]) = <<"KEY">>}) < MaxKeys
                 THEN KeyPool ELSE {})
      [] c = "table" ->
           IF bs = <<>> THEN WordPool
           ELSE IF CountOfType(bs, "TABLE") > 0 THEN {}
           ELSE (IF CountOfType(bs, "CELL") < MaxCells
                 THEN CellsFrom(bs) ELSE {})
                \cup TablePool(Len(bs))
      [] c = "text" -> IF Len(bs) < MaxLines THEN LinePool ELSE {}
      [] c = "mixed" -> IF Len(bs) < MaxMixed THEN MixedPool ELSE {}

-----------------------------------------------------------------------------
(* The reducer as a state machine: a response is received block by block,  *)
(* then one of the functions is applied to it.                             *)

ReducerInit ==
    /\ corpus \in Corpora
    /\ blocks = <<>>
    /\ pc = "receive"
    /\ key_value_pairs = <<>>
    /\ table_content = <<>>
    /\ table_block = NoBlock
    /\ text_content = <<>>
    /\ report = <<>>

RunIdle ==
    /\ rpc = "idle"
    /\ s3_bucket = ""
    /\ bucket_made = FALSE
    /\ objects = {}
    /\ deleted = {}
    /\ failed = {}
    /\ invoice_response = <<>>
    /\ po_response = <<>>
    /\ invoice_analysis = <<>>
    /\ po_analysis = <<>>
    /\ result = <<>>

Init == ReducerInit /\ RunIdle

Receive(b) ==
    /\ pc = "receive"
    /\ b \in NextBlocks(corpus, blocks)
    /\ blocks' = Append(blocks, b @@ ("Id" :> (Len(blocks) + 1)))
    /\ UNCHANGED <<corpus, pc, key_value_pairs, table_content, table_block,
                   text_content, report>>
    /\ UNCHANGED run_vars

\* called at line 151, under the guard of line 146
ExtractKeyValuePairs ==
    /\ pc = "receive"
    /\ BlocksOfType(blocks, "KEY_VALUE_SET") # <<>>
    /\ key_value_pairs' =
           extract_key_value_pairs(blocks, BlocksOfType(blocks, "KEY_VALUE_SET"))
    /\ pc' = "key_value_pairs"
    /\ UNCHANGED <<corpus, blocks, table_content, table_block, text_content,
                   report>>
    /\ UNCHANGED run_vars

\* called at line 162 for every TABLE block
ExtractTableContent(i) ==
    /\ pc = "receive"
    /\ blocks[i].BlockType = "TABLE"
    /\ table_block' = blocks[i]
    /\ table_content' =
           extract_table_content(blocks, blocks[i], BlocksOfType(blocks, "CELL"))
    /\ pc' = "table_content"
    /\ UNCHANGED <<corpus, blocks, key_value_pairs, text_content, report>>
    /\ UNCHANGED run_vars

\* called at line 173, under the guard of line 168
ExtractTextContent ==
    /\ pc = "receive"
    /\ BlocksOfType(blocks, "LINE") # <<>>
    /\ text_content' = extract_text_content(blocks, BlocksOfType(blocks, "LINE"))
    /\ pc' = "text_content"
    /\ UNCHANGED <<corpus, blocks, key_value_pairs, table_content, table_block,
                   report>>
    /\ UNCHANGED run_vars

ProcessTextractResponse(doc_type) ==
    /\ pc = "receive"
    /\ report' = IF ReductionRaises(blocks) THEN Raised
                 ELSE process_textract_response(blocks, doc_type)
    /\ pc' = "report"
    /\ UNCHANGED <<corpus, blocks, key_value_pairs, table_content, table_block,
                   text_content>>
    /\ UNCHANGED run_vars

Next ==
    \/ \E b \in NextBlocks(corpus, blocks) : Receive(b)
    \/ ExtractKeyValuePairs
    \/ \E i \in DOMAIN blocks : ExtractTableContent(i)
    \/ ExtractTextContent
    \/ \E doc_type \in DocTypes : ProcessTextractResponse(doc_type)

Spec == Init /\ [][Next]_vars

-----------------------------------------------------------------------------
(* _run: the calls to S3 and Textract, each of which returns or raises.    *)
(* A call raises botocore's ClientError (the service refused), or another  *)
(* exception (no connection, a time-out, boto3's S3UploadFailedError):     *)
(* _run tells the two apart in its except clauses.                         *)

CallOutcomes == {"ok", "ClientError", "Exception"}

\* the s3_bucket argument: the default "" or a bucket of the caller
BucketArgs == {"", "caller-bucket"}
\* line 62: f"textract-temp-{uuid.uuid4().hex[:8]}"
TempBucket == "textract-temp-<uuid>"
\* line 104: s3_bucket.startswith("textract-temp-")
IsTempBucket(b) == b = TempBucket

\* what analyze_document may return: no 'Blocks', a form field and a line,
\* a table and a blank line, and a response with a block without 'BlockType'
Responses ==
    { [ResponseMetadata |-> "<meta>"],
      [Blocks |-> << [Id |-> 1, BlockType |-> "KEY_VALUE_SET",
                      EntityTypes |-> <<"VALUE">>, Text |-> <<"$500.00">>],
                     [Id |-> 2, BlockType |-> "KEY_VALUE_SET",
                      EntityTypes |-> <<"KEY">>, Text |-> <<"Total">>,
                      Relationships |-> <<Rel("VALUE", <<1>>)>>],
                     [Id |-> 3, BlockType |-> "LINE",
                      Text |-> <<"Thank you">>, Geometry |-> Box(5, 0)] >>],
      [Blocks |-> << [Id |-> 1, BlockType |-> "TABLE",
                      Relationships |-> <<Rel("CHILD", <<2>>)>>],
                     [Id |-> 2, BlockType |-> "CELL", RowIndex |-> 1,
                      ColumnIndex |-> 1, Text |-> <<"Item">>] >>],
      [Blocks |-> << [Id |-> 1, Text |-> <<"Item">>] >>] }

\* the strings _run returns; "Error" is the first five characters
ErrInvoiceNotFound == <<"Error", ": Invoice file not found at path: ", "<path>">>
ErrPONotFound == <<"Error", ": PO file not found at path: ", "<path>">>
ErrNoCredentials ==
    <<"Error", ": AWS credentials not found. Please configure your AWS credentials.">>
ErrInitClients == <<"Error", " initializing AWS clients: ", "<e>">>
ErrCreateBucket == <<"Error", " creating S3 bucket: ", "<e>">>
ErrUpload == <<"Error", " uploading files to S3: ", "<e>">>
ErrAnalyze == <<"Error", " analyzing documents with Textract: ", "<e>">>

\* an exception that leaves _run instead of a string
TopLevelHandler_Reraise == Raised

\* lines 118-119: except Exception as e
TopLevelHandler == <<"Error", " processing documents with Textract: ", "<e>">>

\* lines 110-116
CombinedReport(inv, po) ==
    <<"# INVOICE DOCUMENT ANALYSIS", "\n">> \o inv
    \o <<"\n", "\n", "---", "\n", "\n", "# PURCHASE ORDER DOCUMENT ANALYSIS", "\n">>
    \o po

RunInit ==
    /\ rpc = "check_files"
    /\ s3_bucket \in BucketArgs
    /\ bucket_made = FALSE
    /\ objects = {}
    /\ deleted = {}
    /\ failed = {}
    /\ invoice_response = <<>>
    /\ po_response = <<>>
    /\ invoice_analysis = <<>>
    /\ po_analysis = <<>>
    /\ result = <<>>

ReducerIdle ==
    /\ corpus = "mixed"
    /\ blocks = <<>>
    /\ pc = "idle"
    /\ key_value_pairs = <<>>
    /\ table_content = <<>>
    /\ table_block = NoBlock
    /\ text_content = <<>>
    /\ report = <<>>

InitRun == RunInit /\ ReducerIdle

\* _run returns r; step names what failed, "" when nothing did
Return(r, step) ==
    /\ rpc' = "returned"
    /\ result' = r
    /\ failed' = IF step = "" THEN failed ELSE failed \cup {step}

\* lines 45-49
CheckFiles(invoice_exists, po_exists) ==
    /\ rpc = "check_files"
    /\ IF ~invoice_exists THEN Return(ErrInvoiceNotFound, "files")
       ELSE IF ~po_exists THEN Return(ErrPONotFound, "files")
       ELSE rpc' = "init_clients" /\ UNCHANGED <<result, failed>>
    /\ UNCHANGED <<s3_bucket, bucket_made, objects, deleted, invoice_response,
                   po_response, invoice_analysis, po_analysis>>
    /\ UNCHANGED reducer_vars

\* lines 52-58
InitClients(outcome) ==
    /\ rpc = "init_clients"
    /\ CASE outcome = "ok" -> rpc' = "bucket" /\ UNCHANGED <<result, failed>>
         [] outcome = "NoCredentialsError" -> Return(ErrNoCredentials, "clients")
         [] OTHER -> Return(ErrInitClients, "clients")
    /\ UNCHANGED <<s3_bucket, bucket_made, objects, deleted, invoice_response,
                   po_response, invoice_analysis, po_analysis>>
    /\ UNCHANGED reducer_vars

\* lines 61-67, with a bucket of the caller: nothing is created
UseBucket ==
    /\ rpc = "bucket"
    /\ s3_bucket # ""
    /\ rpc' = "upload_invoice"
    /\ UNCHANGED <<s3_bucket, bucket_made, objects, deleted, failed,
                   invoice_response, po_response, invoice_analysis,
                   po_analysis, result>>
    /\ UNCHANGED reducer_vars

\* lines 61-67, without one: create_bucket returns, raises ClientError with
\* the code BucketAlreadyOwnedByYou or with another code, or raises
\* something else
CreateBucket(outcome) ==
    /\ rpc = "bucket"
    /\ s3_bucket = ""
    /\ s3_bucket' = TempBucket
    /\ bucket_made' = (outcome = "ok")
    /\ CASE outcome \in {"ok", "BucketAlreadyOwnedByYou"} ->
              rpc' = "upload_invoice" /\ UNCHANGED <<result, failed>>
         [] outcome = "ClientError" -> Return(ErrCreateBucket, "create_bucket")
         [] OTHER -> Return(TopLevelHandler, "create_bucket")
    /\ UNCHANGED <<objects, deleted, invoice_response, po_response,
                   invoice_analysis, po_analysis>>
    /\ UNCHANGED reducer_vars

\* lines 74-77: one s3.upload_file call
Upload(at, key, next, outcome) ==
    /\ rpc = at
    /\ objects' = IF outcome = "ok" THEN objects \cup {key} ELSE objects
    /\ CASE outcome = "ok" -> rpc' = next /\ UNCHANGED <<result, failed>>
         [] outcome = "ClientError" -> Return(ErrUpload, "upload")
         [] OTHER -> Return(TopLevelHandler, "upload")
    /\ UNCHANGED <<s3_bucket, bucket_made, deleted, invoice_response,
                   po_response, invoice_analysis, po_analysis>>
    /\ UNCHANGED reducer_vars

UploadInvoice(outcome) == Upload("upload_invoice", "invoice", "upload_po", outcome)
UploadPO(outcome) == Upload("upload_po", "po", "analyze_invoice", outcome)

\* lines 82-85
AnalyzeInvoice(outcome, response) ==
    /\ rpc = "analyze_invoice"
    /\ invoice_response' = IF outcome = "ok" THEN response ELSE invoice_response
    /\ CASE outcome = "ok" -> rpc' = "analyze_po" /\ UNCHANGED <<result, failed>>
         [] outcome = "ClientError" -> Return(ErrAnalyze, "analyze")
         [] OTHER -> Return(TopLevelHandler, "analyze")
    /\ UNCHANGED <<s3_bucket, bucket_made, objects, deleted, po_response,
                   invoice_analysis, po_analysis>>
    /\ UNCHANGED reducer_vars

\* lines 88-94
AnalyzePO(outcome, response) ==
    /\ rpc = "analyze_po"
    /\ po_response' = IF outcome = "ok" THEN response ELSE po_response
    /\ CASE outcome = "ok" -> rpc' = "process_invoice" /\ UNCHANGED <<result, failed>>
         [] outcome = "ClientError" -> Return(ErrAnalyze, "analyze")
         [] OTHER -> Return(TopLevelHandler, "analyze")
    /\ UNCHANGED <<s3_bucket, bucket_made, objects, deleted, invoice_response,
                   invoice_analysis, po_analysis>>
    /\ UNCHANGED reducer_vars

\* line 132: response.get('Blocks', [])
BlocksOf(response) == DictGet(response, "Blocks", <<>>)

\* line 97
ProcessInvoice ==
    /\ rpc = "process_invoice"
    /\ IF ReductionRaises(BlocksOf(invoice_response))
       THEN Return(TopLevelHandler, "reduce") /\ UNCHANGED invoice_analysis
       ELSE /\ invoice_analysis' =
                   process_textract_response(BlocksOf(invoice_response), "INVOICE")
            /\ rpc' = "process_po"
            /\ UNCHANGED <<result, failed>>
    /\ UNCHANGED <<s3_bucket, bucket_made, objects, deleted, invoice_response,
                   po_response, po_analysis>>
    /\ UNCHANGED reducer_vars

\* line 98
ProcessPO ==
    /\ rpc = "process_po"
    /\ IF ReductionRaises(BlocksOf(po_response))
       THEN Return(TopLevelHandler, "reduce") /\ UNCHANGED po_analysis
       ELSE /\ po_analysis' =
                   process_textract_response(BlocksOf(po_response), "PURCHASE ORDER")
            /\ rpc' = "delete_invoice"
            /\ UNCHANGED <<result, failed>>
    /\ UNCHANGED <<s3_bucket, bucket_made, objects, deleted, invoice_response,
                   po_response, invoice_analysis>>
    /\ UNCHANGED reducer_vars

\* lines 102-103, 106-107: one s3.delete_object call.  ClientError ends the
\* clean-up (pass); another exception reaches the handler of line 118.
DeleteObject(at, key, next, outcome) ==
    /\ rpc = at
    /\ deleted' = deleted \cup {key}
    /\ objects' = IF outcome = "ok" THEN objects \ {key} ELSE objects
    /\ CASE outcome = "ok" -> rpc' = next /\ UNCHANGED <<result, failed>>
         [] outcome = "ClientError" ->
              /\ rpc' = "return_report"
              /\ failed' = failed \cup {"cleanup"}
              /\ UNCHANGED result
         [] OTHER -> Return(TopLevelHandler, "cleanup")
    /\ UNCHANGED <<s3_bucket, bucket_made, invoice_response, po_response,
                   invoice_analysis, po_analysis>>
    /\ UNCHANGED reducer_vars

DeleteInvoice(outcome) ==
    DeleteObject("delete_invoice", "invoice", "delete_po", outcome)
DeletePO(outcome) == DeleteObject("delete_po", "po", "delete_bucket", outcome)

\* line 104, for a bucket of the caller: no call
KeepBucket ==
    /\ rpc = "delete_bucket"
    /\ ~IsTempBucket(s3_bucket)
    /\ rpc' = "return_report"
    /\ UNCHANGED <<s3_bucket, bucket_made, objects, deleted, failed,
                   invoice_response, po_response, invoice_analysis,
                   po_analysis, result>>
    /\ UNCHANGED reducer_vars

\* lines 104-107
DeleteBucket(outcome) ==
    /\ rpc = "delete_bucket"
    /\ IsTempBucket(s3_bucket)
    /\ deleted' = deleted \cup {"bucket"}
    /\ bucket_made' = IF outcome = "ok" THEN FALSE ELSE bucket_made
    /\ CASE outcome = "ok" -> rpc' = "return_report" /\ UNCHANGED <<result, failed>>
         [] outcome = "ClientError" ->
              /\ rpc' = "return_report"
              /\ failed' = failed \cup {"cleanup"}
              /\ UNCHANGED result
         [] OTHER -> Return(TopLevelHandler, "cleanup")
    /\ UNCHANGED <<s3_bucket, objects, invoice_response, po_response,
                   invoice_analysis, po_analysis>>
    /\ UNCHANGED reducer_vars

\* lines 110-116
ReturnReport ==
    /\ rpc = "return_report"
    /\ Return(CombinedReport(invoice_analysis, po_analysis), "")
    /\ UNCHANGED <<s3_bucket, bucket_made, objects, deleted, invoice_response,
                   po_response, invoice_analysis, po_analysis>>
    /\ UNCHANGED reducer_vars

NextRun ==
    \/ \E invoice_exists, po_exists \in BOOLEAN :
          CheckFiles(invoice_exists, po_exists)
    \/ \E outcome \in {"ok", "NoCredentialsError", "Exception"} :
          InitClients(outcome)
    \/ UseBucket
    \/ \E outcome \in CallOutcomes \cup {"BucketAlreadyOwnedByYou"} :
          CreateBucket(outcome)
    \/ \E outcome \in CallOutcomes : UploadInvoice(outcome)
    \/ \E outcome \in CallOutcomes : UploadPO(outcome)
    \/ \E outcome \in CallOutcomes, response \in Responses :
          AnalyzeInvoice(outcome, response)
    \/ \E outcome \in CallOutcomes, response \in Responses :
          AnalyzePO(outcome, response)
    \/ ProcessInvoice
    \/ ProcessPO
    \/ \E outcome \in CallOutcomes : DeleteInvoice(outcome)
    \/ \E outcome \in CallOutcomes : DeletePO(outcome)
    \/ KeepBucket
    \/ \E outcome \in CallOutcomes : DeleteBucket(outcome)
    \/ ReturnReport

SpecRun == InitRun /\ [][NextRun]_vars

-----------------------------------------------------------------------------
(* Reading a rendered string back: its lines, the fields of a table line   *)

RECURSIVE SplitFrom(_, _, _)
SplitFrom(s, sep, cur) ==
    IF s = <<>> THEN <<cur>>
    ELSE IF Head(s) = sep THEN <<cur>> \o SplitFrom(Tail(s), sep, <<>>)
    ELSE SplitFrom(Tail(s), sep, Append(cur, Head(s)))

\* the pieces of s between the chunks sep
Split(s, sep) == SplitFrom(s, sep, <<>>)

\* the lines of a rendered string; the empty string has none
LinesOf(s) == IF s = <<>> THEN <<>> ELSE Split(s, "\n")

\* the fields of a table line between its leading and trailing pipes, each
\* without the one space that pads it on either side
FieldsOf(line) ==
    LET pieces == Split(line, "|")
    IN  [i \in 1..(Len(pieces) - 2) |->
            Slice(pieces[i + 1], 2, Len(pieces[i + 1]) - 1)]

\* a line is a pipe, then fields padded by one space and closed by a pipe
WellFormedLine(line) ==
    LET pieces == Split(line, "|")
    IN  /\ Len(pieces) >= 3
        /\ pieces[1] = <<>>
        /\ pieces[Len(pieces)] = <<>>
        /\ \A i \in 2..(Len(pieces) - 1) :
              /\ Len(pieces[i]) >= 2
              /\ pieces[i][1] = " "
              /\ pieces[i][Len(pieces[i])] = " "

\* the chunks of a string run together
RECURSIVE Flatten(_)
Flatten(s) == IF s = <<>> THEN "" ELSE Head(s) \o Flatten(Tail(s))

\* the block with the given id, for an id that is in the collection
BlockById(id) == blocks[CHOOSE k \in DOMAIN blocks : blocks[k].Id = id]
IdsPresent == {blocks[k].Id : k \in DOMAIN blocks}

\* the CELL blocks that the CHILD ids of table_block name, in the order of
\* the ids
ResolvedCells ==
    LET ids == IdsOfType(Relationships(table_block), "CHILD")
        hits == SelectSeq(ids, LAMBDA id : id \in IdsPresent
                                    /\ BlockById(id).BlockType = "CELL")
    IN  [i \in DOMAIN hits |-> BlockById(hits[i])]

CellsAt(r, c) ==
    SelectSeq(ResolvedCells, LAMBDA b : b.RowIndex = r /\ b.ColumnIndex = c)

MaxRowIndex == MaxOf({ResolvedCells[i].RowIndex : i \in DOMAIN ResolvedCells})
MaxColumnIndex ==
    MaxOf({ResolvedCells[i].ColumnIndex : i \in DOMAIN ResolvedCells})

\* the table of the spec's round-trip scenario: four cells, one per
\* coordinate of a 2x2 grid, with the texts Item, Qty, Widget, 3
IsItemQtyTable ==
    /\ Len(ResolvedCells) = 4
    /\ { <<ResolvedCells[i].RowIndex, ResolvedCells[i].ColumnIndex,
           get_text_from_block(ResolvedCells[i], BlockMap(blocks))>> :
           i \in DOMAIN ResolvedCells }
         = { <<1, 1, <<"Item">> >>, <<1, 2, <<"Qty">> >>,
             <<2, 1, <<"Widget">> >>, <<2, 2, <<"3">> >> }

\* C1: a table whose resolved cells span rows 1..R and columns 1..C renders
\* as R + 1 lines (R rows and the separator), each of C cells; the Item/Qty/
\* Widget/3 table renders as the three lines of the round-trip scenario.
C1_TableShape ==
    (pc = "table_content" /\ ResolvedCells # <<>>) =>
        LET lines == LinesOf(table_content)
        IN  /\ Len(lines) = MaxRowIndex + 1
            /\ \A i \in DOMAIN lines :
                  /\ WellFormedLine(lines[i])
                  /\ Len(FieldsOf(lines[i])) = MaxColumnIndex
            /\ IsItemQtyTable =>
                  Flatten(table_content)
                    = "| Item | Qty |\n| --- | --- |\n| Widget | 3 |"

\* what _extract_table_content returns for the Item/Qty/Widget/3 table
C1_ItemQtyRendering ==
    (pc = "table_content" /\ ResolvedCells # <<>> /\ IsItemQtyTable) =>
        Flatten(table_content)
          = "| Item | Qty |  |\n| --- | --- | --- |\n| Widget | 3 |  |\n|  |  |  |"

\* the data rows of the rendered table: its lines without the separator
DataRows ==
    LET lines == LinesOf(table_content)
    IN  [i \in 1..(Len(lines) - 1) |-> IF i = 1 THEN lines[1] ELSE lines[i + 1]]

\* C8: the field at row r, column c is the composed text of the resolved
\* cell with those indices (of the last one in id order, should several
\* have them); a coordinate no resolved cell covers is the empty string; no
\* field is the text None or null.
C8_FieldsAreCellTexts ==
    (pc = "table_content" /\ ResolvedCells # <<>>) =>
        LET resolved == ResolvedCells
            rows == DataRows
            block_map == BlockMap(blocks)
        IN  /\ Len(rows) >= MaxOf({resolved[i].RowIndex : i \in DOMAIN resolved})
            /\ \A r \in DOMAIN rows :
                  LET fields == FieldsOf(rows[r])
                  IN  /\ WellFormedLine(rows[r])
                      /\ Len(fields) >=
                            MaxOf({resolved[i].ColumnIndex : i \in DOMAIN resolved})
                      /\ \A c \in DOMAIN fields :
                            LET cells == SelectSeq(resolved,
                                    LAMBDA b : b.RowIndex = r /\ b.ColumnIndex = c)
                            IN  /\ fields[c] \notin {<<"None">>, <<"null">>, None}
                                /\ cells = <<>> => fields[c] = <<>>
                                /\ cells # <<>> =>
                                      fields[c] = get_text_from_block(
                                                      cells[Len(cells)], block_map)

\* a sparse table is rendered: (1,1) and (2,2) are covered, (1,2) is not, a
\* covered field has text and an id of the TABLE is dangling
C8_Witness ==
    /\ pc = "table_content"
    /\ CellsAt(1, 1) # <<>> /\ CellsAt(2, 2) # <<>> /\ CellsAt(1, 2) = <<>>
    /\ 0 \in {IdsOfType(Relationships(table_block), "CHILD")[i] :
                i \in DOMAIN IdsOfType(Relationships(table_block), "CHILD")}
    /\ FieldsOf(DataRows[2])[2] = <<"3">>
    /\ FieldsOf(DataRows[1])[2] = <<>>

-----------------------------------------------------------------------------
(* Free text *)

LineBlocks == {i \in DOMAIN blocks : blocks[i].BlockType = "LINE"}
TrimmedText(i) == Strip(DictGet(blocks[i], "Text", <<>>))
KeptLines == {i \in LineBlocks : TrimmedText(i) # <<>>}

\* BoundingBox Top and Left of a block, 0 for a block without geometry
TopOf(i) ==
    IF "Geometry" \in DOMAIN blocks[i]
    THEN blocks[i].Geometry.BoundingBox.Top ELSE 0
LeftOf(i) ==
    IF "Geometry" \in DOMAIN blocks[i]
    THEN blocks[i].Geometry.BoundingBox.Left ELSE 0

\* block j is read before block i
ReadBefore(j, i) ==
    \/ TopOf(j) < TopOf(i)
    \/ TopOf(j) = TopOf(i) /\ LeftOf(j) < LeftOf(i)
    \/ TopOf(j) = TopOf(i) /\ LeftOf(j) = LeftOf(i) /\ j < i

ReadingRank(i) == 1 + Cardinality({j \in KeptLines : ReadBefore(j, i)})

\* C9: the free text is the trimmed texts of the LINE blocks, one per line,
\* by ascending Top, then ascending Left, then input order; a LINE block
\* whose trimmed text is empty gives no line.
C9_ReadingOrder ==
    pc = "text_content" =>
        LET lines == LinesOf(text_content)
        IN  /\ Len(lines) = Cardinality(KeptLines)
            /\ \A i \in KeptLines : lines[ReadingRank(i)] = TrimmedText(i)

\* the LINE at Top 10 comes first in the input, the LINE at Top 5 and the
\* same Left second, a blank LINE third; the text of the second is line 1
C9_Witness ==
    /\ pc = "text_content"
    /\ Len(blocks) = 3
    /\ KeptLines = {1, 2}
    /\ TopOf(1) = 10 /\ TopOf(2) = 5 /\ LeftOf(1) = LeftOf(2)
    /\ TrimmedText(1) # TrimmedText(2)
    /\ LinesOf(text_content) = <<TrimmedText(2), TrimmedText(1)>>

-----------------------------------------------------------------------------
(* Form fields *)

KeyBlocks ==
    {i \in DOMAIN blocks : /\ blocks[i].BlockType = "KEY_VALUE_SET"
                           /\ EntityTypes(blocks[i]) = <<"KEY">>}
NameOf(i) == get_text_from_block(blocks[i], BlockMap(blocks))
\* the value text the extractor resolves for KEY block i
ResolvedValue(i) == ValueText(Relationships(blocks[i]), BlockMap(blocks), <<>>)
\* the KEY blocks with a non-empty name and a non-empty resolved value
Emitting == {i \in KeyBlocks : NameOf(i) # <<>> /\ ResolvedValue(i) # <<>>}

\* the j-th smallest element of a set of numbers
NthOf(S, j) == CHOOSE i \in S : Cardinality({x \in S : x < i}) = j - 1

\* C2 as stated: one entry per emitting KEY block, in input order, KEY
\* blocks of the same name giving separate entries.
C2_OneEntryPerKeyBlock ==
    pc = "key_value_pairs" =>
        key_value_pairs =
            [j \in 1..Cardinality(Emitting) |->
                <<NameOf(NthOf(Emitting, j)), ResolvedValue(NthOf(Emitting, j))>>]

EmittedNames == {NameOf(i) : i \in Emitting}
FirstWithName(n) == NthOf({i \in Emitting : NameOf(i) = n}, 1)
LastWithName(n) ==
    LET S == {i \in Emitting : NameOf(i) = n}
    IN  NthOf(S, Cardinality(S))

\* C2 as amended: one entry per distinct name of the emitting KEY blocks,
\* in the order in which the names first occur, each with the value of the
\* last emitting KEY block of that name.
C2_OneEntryPerName ==
    pc = "key_value_pairs" =>
        /\ Len(key_value_pairs) = Cardinality(EmittedNames)
        /\ \A j \in DOMAIN key_value_pairs :
              LET first == NthOf({FirstWithName(n) : n \in EmittedNames}, j)
              IN  key_value_pairs[j] =
                     <<NameOf(first), ResolvedValue(LastWithName(NameOf(first)))>>

\* two KEY blocks of one name and different values were reduced to the one
\* entry that holds the value of the second
C2_Witness ==
    /\ pc = "key_value_pairs"
    /\ \E i, j \in Emitting :
          /\ i < j
          /\ NameOf(i) = NameOf(j)
          /\ ResolvedValue(i) # ResolvedValue(j)
          /\ key_value_pairs = << <<NameOf(j), ResolvedValue(j)>> >>

\* KEY block i has a VALUE relationship that resolves to a block of role
\* VALUE with non-empty composed text
HasNonEmptyValue(i) ==
    \E r \in DOMAIN Relationships(blocks[i]) :
        LET rel == Relationships(blocks[i])[r]
            value_block == FirstValueBlock(rel.Ids, BlockMap(blocks))
        IN  /\ rel.Type = "VALUE"
            /\ value_block # NoBlock
            /\ get_text_from_block(value_block, BlockMap(blocks)) # <<>>

\* C7: a KEY block gives an entry if and only if its name is non-empty and
\* one of its VALUE relationships resolves to a VALUE block with non-empty
\* text; no entry has an empty value.
C7_EntryIffNameAndValue ==
    pc = "key_value_pairs" =>
        /\ \A i \in KeyBlocks :
              (NameOf(i) # <<>> /\ HasNonEmptyValue(i)) =>
                  NameOf(i) \in DictKeys(key_value_pairs)
        /\ \A j \in DOMAIN key_value_pairs :
              /\ key_value_pairs[j][2] # <<>>
              /\ \E i \in KeyBlocks :
                    /\ NameOf(i) = key_value_pairs[j][1]
                    /\ NameOf(i) # <<>>
                    /\ HasNonEmptyValue(i)

\* the VALUE relationships of KEY block i, in relationship order
ValueRelationships(i) ==
    SelectSeq(Relationships(blocks[i]), LAMBDA rel : rel.Type = "VALUE")

\* the text of the VALUE-role block found through the first VALUE
\* relationship that finds one, <<>> when none does
RECURSIVE FirstFoundValue(_, _)
FirstFoundValue(rels, block_map) ==
    IF rels = <<>> THEN <<>>
    ELSE LET value_block == FirstValueBlock(Head(rels).Ids, block_map)
         IN  IF value_block # NoBlock
             THEN get_text_from_block(value_block, block_map)
             ELSE FirstFoundValue(Tail(rels), block_map)

FirstValueOf(i) == FirstFoundValue(ValueRelationships(i), BlockMap(blocks))

\* no other KEY block has the name of KEY block i
NameIsUnique(i) == \A j \in KeyBlocks : NameOf(j) = NameOf(i) => j = i

\* C11: a KEY block with more than one VALUE relationship is emitted with
\* the text of the VALUE block found through the first VALUE relationship
\* that finds one; a later VALUE relationship never replaces it.
C11_FirstValueWins ==
    pc = "key_value_pairs" =>
        \A i \in KeyBlocks :
            (Len(ValueRelationships(i)) > 1 /\ NameOf(i) # <<>>
                /\ NameIsUnique(i)) =>
                /\ \A j \in DOMAIN key_value_pairs :
                      key_value_pairs[j][1] = NameOf(i) =>
                          key_value_pairs[j][2] = FirstValueOf(i)
                /\ FirstValueOf(i) # <<>> =>
                      NameOf(i) \in DictKeys(key_value_pairs)

-----------------------------------------------------------------------------
(* Text composition *)

\* the full text of a block: its own Text, then the full text of every
\* CHILD id that resolves to a WORD block, in relationship and id order,
\* joined by single spaces and trimmed.  The collections received have no
\* block that is its own descendant.
RECURSIVE FullText(_, _)
FullText(block, block_map) ==
    LET own == IF "Text" \in DOMAIN block THEN <<block.Text>> ELSE <<>>
        ids == IdsOfType(Relationships(block), "CHILD")
        ChildParts[k \in 0..Len(ids)] ==
            IF k = 0 THEN <<>>
            ELSE LET child_block == MapGet(block_map, ids[k])
                 IN  ChildParts[k - 1] \o
                        (IF child_block # NoBlock /\ child_block.BlockType = "WORD"
                         THEN <<FullText(child_block, block_map)>>
                         ELSE <<>>)
    IN  Strip(Join(<<" ">>, own \o ChildParts[Len(ids)]))

\* C12: the name _get_text_from_block composes for a KEY block is the
\* block's own text followed by the full text of its WORD children, a WORD
\* child's full text including that of its own WORD children; every
\* emitted name is such a text.
C12_TextIsRecursive ==
    pc = "key_value_pairs" =>
        /\ \A i \in KeyBlocks :
              NameOf(i) = FullText(blocks[i], BlockMap(blocks))
        /\ \A j \in DOMAIN key_value_pairs :
              \E i \in KeyBlocks :
                  key_value_pairs[j][1] = FullText(blocks[i], BlockMap(blocks))

-----------------------------------------------------------------------------
(* The report *)

HasChunk(s, c) == \E i \in DOMAIN s : s[i] = c
HasBlockOfType(t) == \E i \in DOMAIN blocks : blocks[i].BlockType = t

PairsEmitted ==
    extract_key_value_pairs(blocks, BlocksOfType(blocks, "KEY_VALUE_SET")) # <<>>
TableRendered ==
    \E i \in DOMAIN blocks :
        /\ blocks[i].BlockType = "TABLE"
        /\ extract_table_content(blocks, blocks[i],
                                 BlocksOfType(blocks, "CELL")) # <<>>

\* C3 as stated: a subsection header is in the report if and only if its
\* extraction gives something.
C3_HeaderIffOutput ==
    pc = "report" =>
        /\ HasChunk(report, KVHeader) <=> PairsEmitted
        /\ HasChunk(report, TablesHeader) <=> TableRendered
        /\ HasChunk(report, TextHeader) <=> (KeptLines # {})

\* C3 as amended: a subsection header is in the report if and only if the
\* collection holds a block of the subsection's type.
C3_HeaderIffBlocks ==
    pc = "report" =>
        /\ HasChunk(report, KVHeader) <=> HasBlockOfType("KEY_VALUE_SET")
        /\ HasChunk(report, TablesHeader) <=> HasBlockOfType("TABLE")
        /\ HasChunk(report, TextHeader) <=> HasBlockOfType("LINE")

\* a report whose KEY_VALUE_SET blocks were all dropped carries the header
C3_Witness ==
    /\ pc = "report"
    /\ HasBlockOfType("KEY_VALUE_SET")
    /\ ~PairsEmitted
    /\ HasChunk(report, KVHeader)
    /\ ~HasBlockOfType("TABLE")
    /\ ~HasChunk(report, TablesHeader)

\* the collection without the ids that name no block
Undangled ==
    [i \in DOMAIN blocks |->
        IF "Relationships" \in DOMAIN blocks[i]
        THEN [blocks[i] EXCEPT !.Relationships =
                 [r \in DOMAIN @ |->
                     [Type |-> @[r].Type,
                      Ids |-> SelectSeq(@[r].Ids, LAMBDA id : id \in IdsPresent)]]]
        ELSE blocks[i]]

DanglingIds ==
    {id \in UNION {UNION {{Relationships(blocks[i])[r].Ids[k] :
                             k \in DOMAIN Relationships(blocks[i])[r].Ids} :
                          r \in DOMAIN Relationships(blocks[i])} :
                   i \in DOMAIN blocks} : id \notin IdsPresent}

\* C6: on a collection with missing relationships, dangling ids, absent
\* roles and empty texts every function returns a string, and returns what
\* it returns for the collection without the dangling ids.
C6_DanglingIsNoOp ==
    /\ pc = "report" =>
          /\ report # Raised
          /\ report = process_textract_response(Undangled, report[3])
    /\ pc = "key_value_pairs" =>
          key_value_pairs =
              extract_key_value_pairs(Undangled,
                                      BlocksOfType(Undangled, "KEY_VALUE_SET"))
    /\ pc = "table_content" =>
          table_content =
              extract_table_content(Undangled, Undangled[table_block.Id],
                                    BlocksOfType(Undangled, "CELL"))
    /\ pc = "text_content" =>
          text_content = extract_text_content(Undangled,
                                              BlocksOfType(Undangled, "LINE"))

\* a report of a form whose KEY name has a dangling CHILD id before a WORD:
\* the pair is listed under the name the two texts compose
C6_Witness ==
    /\ pc = "report"
    /\ DanglingIds # {}
    /\ \E i \in DOMAIN blocks : "Relationships" \notin DOMAIN blocks[i]
    /\ \E i \in KeyBlocks :
          /\ NameOf(i) = <<"Date", " ", "paid">>
          /\ ResolvedValue(i) = <<"$500.00">>
    /\ HasChunk(report, "paid")
    /\ HasChunk(report, "$500.00")

-----------------------------------------------------------------------------
(* _run *)

BeginsWithError(r) == r # <<>> /\ r[1] = "Error"
CleanupSteps == {"cleanup"}

\* C4: when _run has returned, every object it uploaded that is still in
\* the bucket, and the temporary bucket it created, has had its delete
\* call issued.
C4_UploadedIsDeleted ==
    rpc = "returned" =>
        /\ objects \subseteq deleted
        /\ bucket_made => "bucket" \in deleted

C10_CleanupFailureSwallowed ==
    (rpc = "returned" /\ failed \subseteq CleanupSteps) =>
        result = CombinedReport(invoice_analysis, po_analysis)

====
